---- MODULE Spec2Model ----
(***************************************************************************)
(* D1miniUdpMonitor: a DHT11 temperature/humidity sensor read every two    *)
(* seconds, smoothed by two exponential filters and broadcast over UDP as  *)
(* MegunoLink TIMEPLOT lines.  The source file holds two variants of the   *)
(* sketch: sketch 1 writes the protocol text with udp.write/udp.print,     *)
(* sketch 2 goes through a TimePlot object.  Both are modelled, statement  *)
(* by statement, and are shown the same sensor readings each period.       *)
(***************************************************************************)
EXTENDS Integers, Sequences, FiniteSets, TLC

(* ------------------------------ bounds --------------------------------- *)

\* number of sampling periods explored
MaxCycles == 21

\* fixed-point resolution of a float: a value x stands for x / Scale
Scale == 1000

\* SpecWrap starts this many transmissions before transmitCount overflows
WrapLead == 7

(* ----------------------- floats, sensor readings ----------------------- *)

\* a float is either NaN or a number kept in units of 1/Scale
NaN == [nan |-> TRUE, v |-> 0]

Num(x) == [nan |-> FALSE, v |-> x]

isnan(x) == x.nan

\* what dhtSens.readTemperature() can return: NaN on a failed read
TempReadings == {NaN, Num(30 * Scale)}

\* what dhtSens.readHumidity() can return: NaN on a failed read
HumReadings == {NaN, Num(40 * Scale)}

(* --------------------------- ExponentialFilter ------------------------- *)

\* ExponentialFilter<float> temperatureFilter(5, 25): weight in percent, seed
TemperatureWeight == 5

TemperatureSeed == 25

\* ExponentialFilter<float> humidityFilter(5, 50)
HumidityWeight == 5

HumiditySeed == 50

\* Filter(): current = weight * sample + (1 - weight) * current, the weight a
\* percentage.  Float arithmetic: NaN in, NaN out.
Filter(weight, current, sample) ==
    IF isnan(current) \/ isnan(sample)
    THEN NaN
    ELSE Num((weight * sample.v + (100 - weight) * current.v) \div 100)

\* Print::print(float): "nan" for NaN, else the value rounded to two decimals
\* (the result is kept in hundredths)
printFloat(x) ==
    IF isnan(x) THEN NaN ELSE Num((x.v * 100 + Scale \div 2) \div Scale)

(* ------------------------------ transmitCount -------------------------- *)

\* unsigned long is 32 bits wide; the counter is kept as two 16-bit words,
\* value = hi * Word + lo, so that every intermediate value fits TLC's integers
Word == 65536

Zero == [hi |-> 0, lo |-> 0]

\* variant: the counter declared 16 bits wide, the high word never carried into
IncShort(c) == [hi |-> c.hi, lo |-> (c.lo + 1) % Word]

\* transmitCount++ with wrap at 2^32
Inc(c) ==
    IF c.lo + 1 < Word
    THEN [hi |-> c.hi, lo |-> c.lo + 1]
    ELSE [hi |-> (c.hi + 1) % Word, lo |-> 0]

\* the cadence of the plot display information
Cadence == 10

\* transmitCount % 10, computed on the two words:
\* (hi * Word + lo) % m = ((hi % m) * (Word % m) + lo % m) % m
ModCadence(c) == ((c.hi % Cadence) * (Word % Cadence) + (c.lo % Cadence)) % Cadence

(* ------------------------------- the frame ----------------------------- *)

\* One call of udp.write / udp.print (or one TimePlot call) appends one chunk
\* to the packet under assembly.  nl: the chunk's text ends in "\n".
Chunk(kind, name, args, nl) == [kind |-> kind, name |-> name, args |-> args, nl |-> nl]

Sketches == {1, 2}

VARIABLES
    sensor,             \* what the DHT11 returns this period: [t, h]
    sched,              \* 0: waiting for the period's reading; s: sketch s runs its loop()
    pc,                 \* pc[s]: position of sketch s inside loop()
    temperature,        \* loop()'s local float temperature
    humidity,           \* loop()'s local float humidity
    temperatureFilter,  \* temperatureFilter.Current()
    humidityFilter,     \* humidityFilter.Current()
    transmitCount,      \* unsigned long transmitCount
    open,               \* a packet is under assembly (between beginPacket and endPacket)
    frame,              \* the chunks written into the packet under assembly
    sent,               \* the last datagram handed to the transport
    sendResult,         \* what the last udp.endPacket() returned: 1 sent, 0 failed
    sentLog,            \* per datagram handed over: metadata line count, counter value
    events              \* the steps loop() has taken in the current cycle

vars == <<sensor, sched, pc, temperature, humidity, temperatureFilter, humidityFilter,
          transmitCount, open, frame, sent, sendResult, sentLog, events>>

(* -------------------------- state updates ------------------------------ *)

Set(f, s, x) == [f EXCEPT ![s] = x]

Log(s, tag) == [events EXCEPT ![s] = Append(@, tag)]

At(s, label) == sched = s /\ pc[s] = label

\* the number of metadata (SET, STYLE) chunks in a packet
RECURSIVE MetaCount(_)
MetaCount(chunks) ==
    IF chunks = <<>> THEN 0
    ELSE (IF Head(chunks).kind \in {"SET", "STYLE"} THEN 1 ELSE 0) + MetaCount(Tail(chunks))

Init ==
    /\ sensor = [t |-> NaN, h |-> NaN]
    /\ sched = 0
    /\ pc = [s \in Sketches |-> "read"]
    /\ temperature = [s \in Sketches |-> NaN]
    /\ humidity = [s \in Sketches |-> NaN]
    /\ temperatureFilter = [s \in Sketches |-> Num(TemperatureSeed * Scale)]
    /\ humidityFilter = [s \in Sketches |-> Num(HumiditySeed * Scale)]
    /\ transmitCount = [s \in Sketches |-> Zero]
    /\ open = [s \in Sketches |-> FALSE]
    /\ frame = [s \in Sketches |-> <<>>]
    /\ sent = [s \in Sketches |-> <<>>]
    /\ sendResult = [s \in Sketches |-> 1]
    /\ sentLog = [s \in Sketches |-> <<>>]
    /\ events = [s \in Sketches |-> <<>>]

\* the state after 2^32 - WrapLead periods in which every read failed: the
\* filters still hold their seeds, the counter is WrapLead short of overflow
InitWrap ==
    /\ sensor = [t |-> NaN, h |-> NaN]
    /\ sched = 0
    /\ pc = [s \in Sketches |-> "read"]
    /\ temperature = [s \in Sketches |-> NaN]
    /\ humidity = [s \in Sketches |-> NaN]
    /\ temperatureFilter = [s \in Sketches |-> Num(TemperatureSeed * Scale)]
    /\ humidityFilter = [s \in Sketches |-> Num(HumiditySeed * Scale)]
    /\ transmitCount = [s \in Sketches |-> [hi |-> Word - 1, lo |-> Word - WrapLead]]
    /\ open = [s \in Sketches |-> FALSE]
    /\ frame = [s \in Sketches |-> <<>>]
    /\ sent = [s \in Sketches |-> <<>>]
    /\ sendResult = [s \in Sketches |-> 1]
    /\ sentLog = [s \in Sketches |-> <<>>]
    /\ events = [s \in Sketches |-> <<>>]

\* The DHT11 produces this period's reading; each read may fail on its own.
Sensor ==
    /\ sched = 0
    /\ Len(sentLog[2]) < MaxCycles
    /\ \E t \in TempReadings, h \in HumReadings : sensor' = [t |-> t, h |-> h]
    /\ sched' = 1
    /\ UNCHANGED <<pc, temperature, humidity, temperatureFilter, humidityFilter,
                   transmitCount, open, frame, sent, sendResult, sentLog, events>>

(* ------------------------------ sketch 1 ------------------------------- *)

\* float temperature = dhtSens.readTemperature(); float humidity = dhtSens.readHumidity();
Read1 ==
    /\ At(1, "read")
    /\ temperature' = Set(temperature, 1, sensor.t)
    /\ humidity' = Set(humidity, 1, sensor.h)
    /\ events' = Set(events, 1, <<>>)
    /\ pc' = Set(pc, 1, "filter")
    /\ UNCHANGED <<sensor, sched, temperatureFilter, humidityFilter, transmitCount,
                   open, frame, sent, sendResult, sentLog>>

\* variant: || in place of &&
FiltersDueEither(t, h) == ~isnan(t) \/ ~isnan(h)

\* if(!isnan(temperature) && !isnan(humidity))
FiltersDue1(t, h) == ~isnan(t) /\ ~isnan(h)

\* { temperatureFilter.Filter(temperature); humidityFilter.Filter(humidity); }
UpdateFilters1 ==
    /\ At(1, "filter")
    /\ IF FiltersDue1(temperature[1], humidity[1])
       THEN /\ temperatureFilter' =
                   Set(temperatureFilter, 1,
                       Filter(TemperatureWeight, temperatureFilter[1], temperature[1]))
            /\ humidityFilter' =
                   Set(humidityFilter, 1,
                       Filter(HumidityWeight, humidityFilter[1], humidity[1]))
       ELSE UNCHANGED <<temperatureFilter, humidityFilter>>
    /\ events' = Log(1, "filter")
    /\ pc' = Set(pc, 1, "begin")
    /\ UNCHANGED <<sensor, sched, temperature, humidity, transmitCount, open, frame,
                   sent, sendResult, sentLog>>

\* udp.beginPacket(destinationIp, DESTINATION_UDP_PORT);
BeginPacket1 ==
    /\ At(1, "begin")
    /\ open' = Set(open, 1, TRUE)
    /\ frame' = Set(frame, 1, <<>>)
    /\ events' = Log(1, "beginPacket")
    /\ pc' = Set(pc, 1, "meta")
    /\ UNCHANGED <<sensor, sched, temperature, humidity, temperatureFilter,
                   humidityFilter, transmitCount, sent, sendResult, sentLog>>

\* variant: the test made on the counter after its increment
MetaDueAfterIncrement1(c) == ModCadence(Inc(c)) = 0

\* if (transmitCount % 10 == 0)
MetaDue1(c) == ModCadence(c) = 0

\* the seven udp.write calls of the plot display information
MetadataWrites1 ==
    << Chunk("SET", "title", <<"Remote Temperature & Humidity">>, TRUE),
       Chunk("SET", "x-label", <<"Time">>, TRUE),
       Chunk("SET", "y-label", <<"Degrees C / % Relative Humidity">>, TRUE),
       Chunk("STYLE", "Raw Temperature", <<"bs#">>, TRUE),
       Chunk("STYLE", "Raw Humidity", <<"ro#">>, TRUE),
       Chunk("STYLE", "Filtered Temperature", <<"bn_2">>, TRUE),
       Chunk("STYLE", "Filtered Humidity", <<"rn_2">>, TRUE) >>

Metadata1 ==
    /\ At(1, "meta")
    /\ IF MetaDue1(transmitCount[1])
       THEN /\ frame' = Set(frame, 1, frame[1] \o MetadataWrites1)
            /\ events' = Set(events, 1, events[1] \o <<"decide", "metadata">>)
       ELSE /\ frame' = frame
            /\ events' = Log(1, "decide")
    /\ pc' = Set(pc, 1, "data")
    /\ UNCHANGED <<sensor, sched, temperature, humidity, temperatureFilter,
                   humidityFilter, transmitCount, open, sent, sendResult, sentLog>>

\* variant: the closing write is "}" without the newline
DataLineUnterminated(name, value) ==
    << Chunk("DATA", name, <<>>, FALSE),
       Chunk("VALUE", "", <<printFloat(value)>>, FALSE),
       Chunk("CLOSE", "", <<>>, FALSE) >>

\* one data line: udp.write(prefix); udp.print(value); udp.write("}\n");
DataLine1(name, value) ==
    << Chunk("DATA", name, <<>>, FALSE),
       Chunk("VALUE", "", <<printFloat(value)>>, FALSE),
       Chunk("CLOSE", "", <<>>, TRUE) >>

\* raw measurements, then filtered measurements
DataWrites1(t, h, ft, fh) ==
    DataLine1("Raw Temperature", t) \o DataLine1("Raw Humidity", h)
      \o DataLine1("Filtered Temperature", ft) \o DataLine1("Filtered Humidity", fh)

Data1 ==
    /\ At(1, "data")
    /\ frame' = Set(frame, 1, frame[1] \o DataWrites1(temperature[1], humidity[1],
                                                       temperatureFilter[1], humidityFilter[1]))
    /\ events' = Log(1, "data")
    /\ pc' = Set(pc, 1, "end")
    /\ UNCHANGED <<sensor, sched, temperature, humidity, temperatureFilter,
                   humidityFilter, transmitCount, open, sent, sendResult, sentLog>>

\* variant: the udp.endPacket() call left out
EndPacketMissing ==
    /\ At(1, "end")
    /\ pc' = Set(pc, 1, "incr")
    /\ UNCHANGED <<sensor, sched, temperature, humidity, temperatureFilter,
                   humidityFilter, transmitCount, open, frame, sent, sendResult,
                   sentLog, events>>

\* udp.endPacket(); the transport may report failure, the result is dropped
EndPacket1 ==
    /\ At(1, "end")
    /\ \E ok \in {0, 1} : sendResult' = Set(sendResult, 1, ok)
    /\ sent' = Set(sent, 1, frame[1])
    /\ sentLog' = Set(sentLog, 1, Append(sentLog[1],
                        [nmeta |-> MetaCount(frame[1]), count |-> transmitCount[1]]))
    /\ frame' = Set(frame, 1, <<>>)
    /\ open' = Set(open, 1, FALSE)
    /\ events' = Log(1, "endPacket")
    /\ pc' = Set(pc, 1, "incr")
    /\ UNCHANGED <<sensor, sched, temperature, humidity, temperatureFilter,
                   humidityFilter, transmitCount>>

\* variant: if (udp.endPacket()) transmitCount++;
IncrementOnSuccess ==
    /\ At(1, "incr")
    /\ transmitCount' = IF sendResult[1] = 1
                        THEN Set(transmitCount, 1, Inc(transmitCount[1]))
                        ELSE transmitCount
    /\ events' = Log(1, "incr")
    /\ pc' = Set(pc, 1, "delay")
    /\ UNCHANGED <<sensor, sched, temperature, humidity, temperatureFilter,
                   humidityFilter, open, frame, sent, sendResult, sentLog>>

\* transmitCount++;
Increment1 ==
    /\ At(1, "incr")
    /\ transmitCount' = Set(transmitCount, 1, Inc(transmitCount[1]))
    /\ events' = Log(1, "incr")
    /\ pc' = Set(pc, 1, "delay")
    /\ UNCHANGED <<sensor, sched, temperature, humidity, temperatureFilter,
                   humidityFilter, open, frame, sent, sendResult, sentLog>>

\* delay(2000); loop() returns
Delay1 ==
    /\ At(1, "delay")
    /\ pc' = Set(pc, 1, "read")
    /\ sched' = 2
    /\ UNCHANGED <<sensor, temperature, humidity, temperatureFilter, humidityFilter,
                   transmitCount, open, frame, sent, sendResult, sentLog, events>>

(* ------------------------------ sketch 2 ------------------------------- *)

\* TimePlot Plot("DHT", udp): each call below sends one complete line,
\* {TIMEPLOT...}\n, to the packet under assembly
SetTitle(text) == Chunk("SET", "title", <<text>>, TRUE)

SetXlabel(text) == Chunk("SET", "x-label", <<text>>, TRUE)

SetYlabel(text) == Chunk("SET", "y-label", <<text>>, TRUE)

SetSeriesProperties(name, color, lineStyle, width, marker) ==
    Chunk("STYLE", name, <<color, lineStyle, width, marker>>, TRUE)

SendData(name, value) == Chunk("DATA", name, <<printFloat(value)>>, TRUE)

\* float temperature = dhtSens.readTemperature(); float humidity = dhtSens.readHumidity();
Read2 ==
    /\ At(2, "read")
    /\ temperature' = Set(temperature, 2, sensor.t)
    /\ humidity' = Set(humidity, 2, sensor.h)
    /\ events' = Set(events, 2, <<>>)
    /\ pc' = Set(pc, 2, "filter")
    /\ UNCHANGED <<sensor, sched, temperatureFilter, humidityFilter, transmitCount,
                   open, frame, sent, sendResult, sentLog>>

\* variant: the validity test left out
FiltersDueAlways(t, h) == TRUE

\* if(!isnan(temperature) && !isnan(humidity))
FiltersDue2(t, h) == ~isnan(t) /\ ~isnan(h)

\* { temperatureFilter.Filter(temperature); humidityFilter.Filter(humidity); }
UpdateFilters2 ==
    /\ At(2, "filter")
    /\ IF FiltersDue2(temperature[2], humidity[2])
       THEN /\ temperatureFilter' =
                   Set(temperatureFilter, 2,
                       Filter(TemperatureWeight, temperatureFilter[2], temperature[2]))
            /\ humidityFilter' =
                   Set(humidityFilter, 2,
                       Filter(HumidityWeight, humidityFilter[2], humidity[2]))
       ELSE UNCHANGED <<temperatureFilter, humidityFilter>>
    /\ events' = Log(2, "filter")
    /\ pc' = Set(pc, 2, "begin")
    /\ UNCHANGED <<sensor, sched, temperature, humidity, transmitCount, open, frame,
                   sent, sendResult, sentLog>>

\* udp.beginPacket(destinationIp, DESTINATION_UDP_PORT); TimePlot Plot("DHT", udp);
BeginPacket2 ==
    /\ At(2, "begin")
    /\ open' = Set(open, 2, TRUE)
    /\ frame' = Set(frame, 2, <<>>)
    /\ events' = Log(2, "beginPacket")
    /\ pc' = Set(pc, 2, "meta")
    /\ UNCHANGED <<sensor, sched, temperature, humidity, temperatureFilter,
                   humidityFilter, transmitCount, sent, sendResult, sentLog>>

\* variant: the test made on the counter after its increment
MetaDueAfterIncrement2(c) == ModCadence(Inc(c)) = 0

\* if (transmitCount % 10 == 0)
MetaDue2(c) == ModCadence(c) = 0

\* the seven Plot.Set... calls of the plot display information
MetadataWrites2 ==
    << SetTitle("Remote Temperature & Humidity"),
       SetXlabel("Time"),
       SetYlabel("Degrees C / % Relative Humidity"),
       SetSeriesProperties("Raw Temperature", "Blue", "NoLine", 1, "Square"),
       SetSeriesProperties("Raw Humidity", "Red", "NoLine", 1, "Circle"),
       SetSeriesProperties("Filtered Temperature", "Blue", "Solid", 2, "NoMarker"),
       SetSeriesProperties("Filtered Humidity", "Red", "Solid", 2, "NoMarker") >>

Metadata2 ==
    /\ At(2, "meta")
    /\ IF MetaDue2(transmitCount[2])
       THEN /\ frame' = Set(frame, 2, frame[2] \o MetadataWrites2)
            /\ events' = Set(events, 2, events[2] \o <<"decide", "metadata">>)
       ELSE /\ frame' = frame
            /\ events' = Log(2, "decide")
    /\ pc' = Set(pc, 2, "data")
    /\ UNCHANGED <<sensor, sched, temperature, humidity, temperatureFilter,
                   humidityFilter, transmitCount, open, sent, sendResult, sentLog>>

\* variant: the filtered measurements sent before the raw ones
DataWritesFilteredFirst(t, h, ft, fh) ==
    << SendData("Filtered Temperature", ft),
       SendData("Filtered Humidity", fh),
       SendData("Raw Temperature", t),
       SendData("Raw Humidity", h) >>

\* the four Plot.SendData calls
DataWrites2(t, h, ft, fh) ==
    << SendData("Raw Temperature", t),
       SendData("Raw Humidity", h),
       SendData("Filtered Temperature", ft),
       SendData("Filtered Humidity", fh) >>

Data2 ==
    /\ At(2, "data")
    /\ frame' = Set(frame, 2, frame[2] \o DataWrites2(temperature[2], humidity[2],
                                                       temperatureFilter[2], humidityFilter[2]))
    /\ events' = Log(2, "data")
    /\ pc' = Set(pc, 2, "end")
    /\ UNCHANGED <<sensor, sched, temperature, humidity, temperatureFilter,
                   humidityFilter, transmitCount, open, sent, sendResult, sentLog>>

\* udp.endPacket(); the transport may report failure, the result is dropped
EndPacket2 ==
    /\ At(2, "end")
    /\ \E ok \in {0, 1} : sendResult' = Set(sendResult, 2, ok)
    /\ sent' = Set(sent, 2, frame[2])
    /\ sentLog' = Set(sentLog, 2, Append(sentLog[2],
                        [nmeta |-> MetaCount(frame[2]), count |-> transmitCount[2]]))
    /\ frame' = Set(frame, 2, <<>>)
    /\ open' = Set(open, 2, FALSE)
    /\ events' = Log(2, "endPacket")
    /\ pc' = Set(pc, 2, "incr")
    /\ UNCHANGED <<sensor, sched, temperature, humidity, temperatureFilter,
                   humidityFilter, transmitCount>>

\* transmitCount++;
Increment2 ==
    /\ At(2, "incr")
    /\ transmitCount' = Set(transmitCount, 2, Inc(transmitCount[2]))
    /\ events' = Log(2, "incr")
    /\ pc' = Set(pc, 2, "delay")
    /\ UNCHANGED <<sensor, sched, temperature, humidity, temperatureFilter,
                   humidityFilter, open, frame, sent, sendResult, sentLog>>

\* delay(2000); loop() returns
Delay2 ==
    /\ At(2, "delay")
    /\ pc' = Set(pc, 2, "read")
    /\ sched' = 0
    /\ UNCHANGED <<sensor, temperature, humidity, temperatureFilter, humidityFilter,
                   transmitCount, open, frame, sent, sendResult, sentLog, events>>

(* --------------------------- specifications ---------------------------- *)

Next ==
    \/ Sensor
    \/ Read1 \/ UpdateFilters1 \/ BeginPacket1 \/ Metadata1
    \/ Data1 \/ EndPacket1 \/ Increment1 \/ Delay1
    \/ Read2 \/ UpdateFilters2 \/ BeginPacket2 \/ Metadata2
    \/ Data2 \/ EndPacket2 \/ Increment2 \/ Delay2

\* both sketches from power-up
Spec == Init /\ [][Next]_vars

\* both sketches shortly before transmitCount overflows
SpecWrap == InitWrap /\ [][Next]_vars

\* loop() is the only thread of control and none of its statements blocks
\* for ever: a step that can be taken is taken
FairSpec == Init /\ [][Next]_vars /\ WF_vars(Next)

(* ------------------------ reading a datagram --------------------------- *)

RECURSIVE ArgsOf(_)
ArgsOf(chunks) == IF chunks = <<>> THEN <<>> ELSE Head(chunks).args \o ArgsOf(Tail(chunks))

\* a line as the plotting tool sees it: what it is, what it names, its fields
LineOf(chunks) ==
    [kind |-> chunks[1].kind, name |-> chunks[1].name, args |-> ArgsOf(chunks)]

\* the newline-terminated lines of a packet, cut where a chunk ends in "\n"
RECURSIVE LinesFrom(_, _)
LinesFrom(chunks, cur) ==
    IF chunks = <<>> THEN <<>>
    ELSE IF Head(chunks).nl
         THEN <<LineOf(Append(cur, Head(chunks)))>> \o LinesFrom(Tail(chunks), <<>>)
         ELSE LinesFrom(Tail(chunks), Append(cur, Head(chunks)))

Lines(packet) == LinesFrom(packet, <<>>)

\* the packet does not end in the middle of a line
Terminated(packet) == packet = <<>> \/ packet[Len(packet)].nl

IsData(line) == line.kind = "DATA"

IsMeta(line) == line.kind \in {"SET", "STYLE"}

Heads(lines) == [i \in 1..Len(lines) |-> <<lines[i].kind, lines[i].name>>]

MetaHeads ==
    << <<"SET", "title">>, <<"SET", "x-label">>, <<"SET", "y-label">>,
       <<"STYLE", "Raw Temperature">>, <<"STYLE", "Raw Humidity">>,
       <<"STYLE", "Filtered Temperature">>, <<"STYLE", "Filtered Humidity">> >>

DataHeads ==
    << <<"DATA", "Raw Temperature">>, <<"DATA", "Raw Humidity">>,
       <<"DATA", "Filtered Temperature">>, <<"DATA", "Filtered Humidity">> >>

HasMeta(packet) == MetaCount(packet) > 0

\* the steps of the current cycle, the optional metadata write left out
Steps(s) == SelectSeq(events[s], LAMBDA e : e # "metadata")

Positions(s, tag) == {i \in 1..Len(events[s]) : events[s][i] = tag}

\* the cycle's packet has been handed over and loop() has not yet returned
Handed(s) == pc[s] \in {"incr", "delay"}

\* loop() is not running
Idle(s) == pc[s] = "read"

CycleOrder == <<"filter", "beginPacket", "decide", "data", "endPacket", "incr">>

\* the counter value n, for n < Word
Count(n) == [hi |-> 0, lo |-> n]

MaxCount == [hi |-> Word - 1, lo |-> Word - 1]

\* frames i < j of a log both carry metadata and no frame between them does
Consecutive(log, i, j) ==
    /\ i < j
    /\ log[i].nmeta > 0
    /\ log[j].nmeta > 0
    /\ \A k \in (i + 1)..(j - 1) : log[k].nmeta = 0

\* the counter overflowed after frame i and not after frame j
Wrapped(log, i, j) == \E k \in (i + 1)..j : log[k].count = Zero

(* ------------------------------- claims -------------------------------- *)

\* C1: from transmitCount = 0, among the first 20 cycles (numbered 0..19) the
\* seven metadata lines are in the frames of cycles 0 and 10 and in no other
\* frame, whatever the readings were.
C1_MetadataCadence ==
    \A s \in Sketches : \A i \in 1..Len(sentLog[s]) :
        i <= 2 * Cadence =>
            sentLog[s][i].nmeta = (IF i - 1 \in {0, Cadence} THEN 7 ELSE 0)

C1_Witness ==
    /\ Len(sentLog[1]) = 2 * Cadence
    /\ sentLog[1][1].nmeta = 7
    /\ sentLog[1][Cadence + 1].nmeta = 7
    /\ isnan(temperature[1])
    /\ ~isnan(temperatureFilter[1]) /\ temperatureFilter[1].v > TemperatureSeed * Scale

\* C2: the two readings are handled independently: a valid temperature
\* updates temperatureFilter in its cycle whatever the humidity reading is,
\* and a valid humidity updates humidityFilter whatever the temperature is.
C2_IndependentUpdate ==
    [][\A s \in Sketches :
         (pc[s] = "filter" /\ pc'[s] = "begin") =>
            /\ ~isnan(temperature[s]) =>
                 temperatureFilter'[s] =
                     Filter(TemperatureWeight, temperatureFilter[s], temperature[s])
            /\ ~isnan(humidity[s]) =>
                 humidityFilter'[s] =
                     Filter(HumidityWeight, humidityFilter[s], humidity[s])]_vars

\* C3: a NaN reading never reaches a filter: no filter ever holds NaN, no step
\* of a cycle whose reading is invalid changes that sensor's filter, and the
\* Filtered line of that cycle's datagram carries the filter's unchanged value.
C3_InvalidNeverFiltered ==
    /\ [](\A s \in Sketches : ~isnan(temperatureFilter[s]) /\ ~isnan(humidityFilter[s]))
    /\ [][\A s \in Sketches :
            /\ (~Idle(s) /\ isnan(temperature[s])) =>
                   temperatureFilter'[s] = temperatureFilter[s]
            /\ (~Idle(s) /\ isnan(humidity[s])) =>
                   humidityFilter'[s] = humidityFilter[s]]_vars
    /\ [](\A s \in Sketches :
            Handed(s) =>
              /\ isnan(temperature[s]) =>
                   /\ Len(Lines(sent[s])) >= 4
                   /\ \E i \in 1..Len(Lines(sent[s])) :
                        /\ Heads(Lines(sent[s]))[i] = DataHeads[3]
                        /\ Lines(sent[s])[i].args = <<printFloat(temperatureFilter[s])>>
              /\ isnan(humidity[s]) =>
                   /\ Len(Lines(sent[s])) >= 4
                   /\ \E i \in 1..Len(Lines(sent[s])) :
                        /\ Heads(Lines(sent[s]))[i] = DataHeads[4]
                        /\ Lines(sent[s])[i].args = <<printFloat(humidityFilter[s])>>)

C3_Witness ==
    /\ pc[1] = "delay"
    /\ isnan(temperature[1])
    /\ ~isnan(humidity[1])
    /\ temperatureFilter[1].v > TemperatureSeed * Scale
    /\ humidityFilter[1].v < HumiditySeed * Scale

\* C4: each run of loop() hands one datagram over: one beginPacket, one
\* endPacket after it, every metadata and data write between the two, and no
\* packet under assembly when the cycle starts or once it has been handed over.
C4_OneDatagramPerCycle ==
    \A s \in Sketches :
        /\ pc[s] \in {"read", "filter", "begin", "incr", "delay"} => ~open[s]
        /\ frame[s] # <<>> => open[s]
        /\ Cardinality(Positions(s, "beginPacket")) <= 1
        /\ Cardinality(Positions(s, "endPacket")) <= 1
        /\ Handed(s) =>
             /\ Cardinality(Positions(s, "beginPacket")) = 1
             /\ Cardinality(Positions(s, "endPacket")) = 1
             /\ Positions(s, "data") # {}
        /\ \A w \in Positions(s, "metadata") \cup Positions(s, "data") :
             /\ \E b \in Positions(s, "beginPacket") : b < w
             /\ \A e \in Positions(s, "endPacket") : w < e
        /\ \A e \in Positions(s, "endPacket") :
             \E b \in Positions(s, "beginPacket") : b < e
        /\ sched = 0 => Len(sentLog[1]) = Len(sentLog[2])

C4_Witness ==
    /\ pc[1] = "delay"
    /\ Positions(1, "metadata") # {}
    /\ Len(sentLog[1]) > Cadence
    /\ ~open[1]

\* C5: every datagram has the four data lines Raw Temperature, Raw Humidity,
\* Filtered Temperature, Filtered Humidity in this order, valid readings or
\* not; its metadata lines, if any, are title, x-label, y-label and the four
\* STYLE lines in series order, and they all come before the data lines.
C5_LineOrder ==
    \A s \in Sketches :
        sent[s] # <<>> =>
            LET ls == Lines(sent[s]) IN
            /\ Terminated(sent[s])
            /\ Heads(SelectSeq(ls, IsData)) = DataHeads
            /\ Heads(SelectSeq(ls, LAMBDA l : ~IsData(l))) \in {<<>>, MetaHeads}
            /\ \A i, j \in 1..Len(ls) : (i < j /\ IsData(ls[i])) => IsData(ls[j])

C5_Witness ==
    /\ HasMeta(sent[1])
    /\ HasMeta(sent[2])
    /\ Handed(2)
    /\ isnan(temperature[2])
    /\ Len(sentLog[2]) > Cadence

\* C6: a cycle that has begun a packet always gets back to idle, with
\* transmitCount one higher per datagram handed over, whether endPacket
\* reported success or failure; a cycle calls endPacket once only.
C6_ReturnsToIdle ==
    /\ \A s \in Sketches : open[s] ~> Idle(s)
    /\ [](\A s \in Sketches :
            /\ Idle(s) => transmitCount[s] = Count(Len(sentLog[s]))
            /\ pc[s] = "incr" => Inc(transmitCount[s]) = Count(Len(sentLog[s]))
            /\ Cardinality(Positions(s, "endPacket")) <= 1)

C6_Witness ==
    /\ sendResult[1] = 0
    /\ pc[1] = "data"
    /\ Len(sentLog[1]) >= 1
    /\ transmitCount[1] = Count(Len(sentLog[1]))

\* C7 as stated: the datagram of a metadata cycle has 3 + 4 = 7 lines.
C7_SevenLines ==
    \A s \in Sketches :
        HasMeta(sent[s]) => Len(Lines(sent[s])) = 7

\* C7 amended: the datagram of a metadata cycle has 3 + 4 + 4 = 11
\* newline-terminated lines: three SET lines, four STYLE lines, four DATA lines.
C7_ElevenLines ==
    \A s \in Sketches :
        HasMeta(sent[s]) =>
            /\ Terminated(sent[s])
            /\ Len(Lines(sent[s])) = 11
            /\ Len(SelectSeq(Lines(sent[s]), IsMeta)) = 7
            /\ Len(SelectSeq(Lines(sent[s]), IsData)) = 4

C7_Witness ==
    /\ HasMeta(sent[1])
    /\ Handed(1)
    /\ Len(Lines(sent[1])) = 11

\* C8 as stated: filter update, counter increment, begin frame, metadata
\* decision, data lines, end frame.
C8_IncrementBeforeFrame ==
    \A s \in Sketches :
        pc[s] = "delay" =>
            Steps(s) = <<"filter", "incr", "beginPacket", "decide", "data", "endPacket">>

\* C8 amended: filter update, begin frame, metadata decision, data lines, end
\* frame, counter increment; the decision reads the counter before this cycle's
\* increment.
C8_IncrementAfterFrame ==
    \A s \in Sketches :
        /\ pc[s] = "delay" => Steps(s) = CycleOrder
        /\ Len(Steps(s)) <= Len(CycleOrder)
        /\ Steps(s) = SubSeq(CycleOrder, 1, Len(Steps(s)))
        /\ pc[s] \in {"data", "end"} =>
             (HasMeta(frame[s]) <=> ModCadence(transmitCount[s]) = 0)
        /\ pc[s] = "delay" =>
             (HasMeta(sent[s]) <=> ModCadence(transmitCount[s]) = 1)

C8_Witness ==
    /\ pc[1] = "delay"
    /\ HasMeta(sent[1])
    /\ Len(sentLog[1]) > Cadence

\* C9 as stated: between two consecutive datagrams with metadata there are
\* exactly 9 without, also when transmitCount overflows in between.
C9_NineBetween ==
    \A s \in Sketches : \A i, j \in 1..Len(sentLog[s]) :
        Consecutive(sentLog[s], i, j) => j - i - 1 = Cadence - 1

\* C9 amended: between two consecutive datagrams with metadata there are
\* exactly 9 without, except across the overflow of transmitCount, where there
\* are 5: 2^32 - 1 is 5 modulo 10, and 0 follows it.
C9_NineBetweenButAcrossWrap ==
    \A s \in Sketches : \A i, j \in 1..Len(sentLog[s]) :
        Consecutive(sentLog[s], i, j) =>
            j - i - 1 = (IF Wrapped(sentLog[s], i, j)
                         THEN ModCadence(MaxCount)
                         ELSE Cadence - 1)

C9_Witness ==
    \E i, j, k \in 1..Len(sentLog[1]) :
        /\ Consecutive(sentLog[1], i, j)
        /\ Consecutive(sentLog[1], j, k)
        /\ sentLog[1][j].count = Zero
        /\ sentLog[1][j - 1].count = MaxCount
        /\ j - i - 1 = 5
        /\ k - j - 1 = 9

\* C10: fed the same readings, the two sketches agree after every cycle on
\* transmitCount and both filters, and their datagrams agree on the metadata
\* lines (presence, number, order) and on the data lines (order, values).
C10_SketchesAgree ==
    sched = 0 =>
        /\ transmitCount[1] = transmitCount[2]
        /\ temperatureFilter[1] = temperatureFilter[2]
        /\ humidityFilter[1] = humidityFilter[2]
        /\ HasMeta(sent[1]) <=> HasMeta(sent[2])
        /\ Heads(Lines(sent[1])) = Heads(Lines(sent[2]))
        /\ \A i \in 1..Len(Lines(sent[1])) :
             IsData(Lines(sent[1])[i]) =>
                 Lines(sent[1])[i].args = Lines(sent[2])[i].args

C10_Witness ==
    /\ sched = 0
    /\ Len(sentLog[2]) > Cadence
    /\ HasMeta(sent[1])
    /\ temperatureFilter[1].v > TemperatureSeed * Scale
    /\ isnan(temperature[2])
    /\ ~isnan(humidity[2])

====
